---- MODULE Spec2Model ----
(***************************************************************************)
(* The offline asset-caching worker of Busting Bias (service-worker.js and *)
(* its later revision, which adds "/offline.html" to the manifest): the    *)
(* install, activate and fetch handlers, run against a cache storage and a *)
(* network that may fail.                                                  *)
(***************************************************************************)
EXTENDS Integers, Sequences, FiniteSets, TLC

----------------------------------------------------------------------------
(* Bounds of the model *)

\* install events and fetch events dispatched in one behaviour
MaxWork == 3
\* cache.add failures in one run of the install handler
MaxFailures == 2
\* stimuli of the original deck that a game is played with
MaxDeck == 4
\* feedback timers pending at one time
MaxTimers == 2

----------------------------------------------------------------------------
(* Configuration of the worker *)

CACHE_NAME == "busting-bias-v2"

\* service-worker.js: "/offline.html" is commented out
PRECACHE_ASSETS ==
  << "/", "/index.html", "/style.css", "/game.js", "/manifest.json",
     "/icons/icon-192.png", "/icons/icon-512.png", "/correct.wav",
     "/incorrect.wav" >>

\* the later revision of service-worker.js: "/offline.html" is listed
PRECACHE_ASSETS_OFFLINE ==
  << "/", "/index.html", "/style.css", "/game.js", "/manifest.json",
     "/icons/icon-192.png", "/icons/icon-512.png", "/correct.wav",
     "/incorrect.wav", "/offline.html" >>

\* the manifest of the install scenario
ScenarioManifest == << "/a.js", "/b.js" >>

\* the fallback document of the navigation branch
OFFLINE_URL == "/offline.html"


----------------------------------------------------------------------------
(* Requests *)

HTTPS == << "h", "t", "t", "p", "s" >>
HTTP == << "h", "t", "t", "p" >>
EXT == << "c", "h", "r", "o", "m", "e", "-", "e", "x", "t" >>

\* s.startsWith(p) on character sequences
StartsWith(s, p) ==
  /\ Len(s) >= Len(p)
  /\ \A i \in 1..Len(p) : s[i] = p[i]

\* the characters of a request URL: scheme, "://", path (the path is opaque)
UrlChars(req) == req.scheme \o << ":", "/", "/" >>

\* a handler without the guard: every request is taken
IsHttp_Any(req) == TRUE

\* req.url.startsWith("http")
IsHttp(req) == StartsWith(UrlChars(req), HTTP)

Requests ==
  { [scheme |-> HTTPS, path |-> "/", mode |-> "navigate"],
    [scheme |-> HTTPS, path |-> "/style.css", mode |-> "no-cors"],
    [scheme |-> HTTP, path |-> "/img.png", mode |-> "no-cors"],
    [scheme |-> EXT, path |-> "/inject.js", mode |-> "no-cors"] }

\* the key a request has in a cache
Key(req) == req.path

\* the keys some look-up of the fetch handler can ask for
Observed == { Key(r) : r \in Requests } \cup { OFFLINE_URL }

\* The install loop is run over the entries of the manifest that some
\* look-up can ask for, in manifest order: the loop treats every entry
\* alike, and no handler reads the others.
Cut(m) == SelectSeq(m, LAMBDA a : a \in Observed)

Manifests ==
  { Cut(PRECACHE_ASSETS), Cut(PRECACHE_ASSETS_OFFLINE), ScenarioManifest }

----------------------------------------------------------------------------
(* Cache storage: a sequence of buckets in creation order, each a tag and  *)
(* the number of entries stored under every key.                           *)

StaleTags == << "busting-bias-v1", "third-party" >>

StaleKeys(tag) ==
  IF tag = "busting-bias-v1" THEN { "/", "/style.css" } ELSE { "/img.png" }

AllKeys ==
  { PRECACHE_ASSETS_OFFLINE[i] : i \in 1..Len(PRECACHE_ASSETS_OFFLINE) }
    \cup { ScenarioManifest[i] : i \in 1..Len(ScenarioManifest) }
    \cup { Key(r) : r \in Requests }

EmptyEntries == [k \in AllKeys |-> 0]

StaleBucket(tag) ==
  [tag |-> tag,
   entries |-> [k \in AllKeys |-> IF k \in StaleKeys(tag) THEN 1 ELSE 0]]

VARIABLES
  version,     \* which game script the page runs: "word" or "image"
  stimuli,     \* the shuffled deck: the correct side of each stimulus
  currentIndex,
  score,
  responses,   \* the attempts recorded in this game
  timers,      \* the 600 ms feedback timers that are pending
  ui,          \* the stimulus on screen and the state of the controls
  manifest,    \* the precache manifest of this worker version
  caches,      \* the cache storage
  sw,          \* the worker of the latest registration
  inst,        \* the install handler's run
  act,         \* the activate handler's run
  ev,          \* the fetch events
  hist         \* what the previous run of the install handler left behind

vars == << manifest, caches, sw, inst, act, ev, hist >>

\* the state of the page's game
gvars == << version, stimuli, currentIndex, score, responses, timers, ui >>

\* caches.keys()
Tags(cs) == { cs[i].tag : i \in 1..Len(cs) }

Has(cs, tag) == tag \in Tags(cs)

IndexOf(cs, tag) == CHOOSE i \in 1..Len(cs) : cs[i].tag = tag

Bucket(cs, tag) == cs[IndexOf(cs, tag)].entries

\* the keys a bucket holds
KeysOf(entries) == { k \in AllKeys : entries[k] > 0 }

CurrentKeys(cs) ==
  IF Has(cs, CACHE_NAME) THEN KeysOf(Bucket(cs, CACHE_NAME)) ELSE {}

\* caches.open(tag): creates the bucket if absent
Open(cs, tag) ==
  IF Has(cs, tag) THEN cs ELSE Append(cs, [tag |-> tag, entries |-> EmptyEntries])

\* caches.delete(tag)
Delete(cs, tag) == SelectSeq(cs, LAMBDA b : b.tag # tag)

\* a put that adds an entry beside the one already stored under the key
PutEntry_Append(cs, tag, key) ==
  [i \in 1..Len(cs) |->
     IF cs[i].tag = tag
       THEN [cs[i] EXCEPT !.entries = [@ EXCEPT ![key] = @ + 1]]
       ELSE cs[i]]

\* cache.put(key, response) on an opened bucket: the entry stored under the
\* key replaces whatever was stored under it
PutEntry(cs, tag, key) ==
  [i \in 1..Len(cs) |->
     IF cs[i].tag = tag
       THEN [cs[i] EXCEPT !.entries = [@ EXCEPT ![key] = 1]]
       ELSE cs[i]]

----------------------------------------------------------------------------
(* Responses *)

NoResult == [kind |-> "none", tag |-> "-", key |-> "-", obj |-> "-"]

\* what a handler returns when it has no response: undefined
Undefined == [kind |-> "undefined", tag |-> "-", key |-> "-", obj |-> "-"]

\* a handler promise that rejects: the error leaves the async function
Thrown == [kind |-> "thrown", tag |-> "-", key |-> "-", obj |-> "-"]

\* the response object a network fetch resolves with
Fresh == [kind |-> "network", tag |-> "-", key |-> "-", obj |-> "fresh"]

\* response.clone(): another object, with a body of its own
Clone(r) == [r EXCEPT !.obj = "clone"]

Cached(tag, key) == [kind |-> "cached", tag |-> tag, key |-> key, obj |-> "-"]

\* caches.match(key): the first bucket, in creation order, that holds the
\* key answers; undefined when none does
MatchAll(cs, key) ==
  LET hits == { i \in 1..Len(cs) : cs[i].entries[key] > 0 }
  IN  IF hits = {} THEN Undefined
      ELSE LET first == CHOOSE i \in hits : \A j \in hits : i <= j
           IN  Cached(cs[first].tag, key)

\* the `a || b` of the navigation fallback
IsResponse(r) == r.kind \in { "network", "cached" }

\* event.respondWith(promise): what the page gets once the promise resolves.
\* A value that is no Response, or a Response whose body is already taken,
\* fails the load.
Deliver(r, used) ==
  IF ~IsResponse(r) THEN "network_error"
  ELSE IF r.kind = "network" /\ r.obj \in used THEN "network_error"
  ELSE "response"

----------------------------------------------------------------------------
(* The game of the page: the word version and the image version *)

Versions == { "word", "image" }

\* originalStimuli, as the correct side of each stimulus. The image version
\* builds it from two alien types and four colours, with
\* (tIndex + cIndex) % 2 === 0 ? "right" : "left"
OriginalStimuli(v) ==
  IF v = "word"
    THEN << "left", "right", "right", "left" >>
    ELSE [k \in 1..8 |->
            IF (((k - 1) \div 4) + ((k - 1) % 4)) % 2 = 0 THEN "right"
                                                         ELSE "left"]

\* the stimuli a game is played with
Deck(v) ==
  LET d == OriginalStimuli(v)
  IN  SubSeq(d, 1, IF Len(d) < MaxDeck THEN Len(d) ELSE MaxDeck)

Lefts(s) == Cardinality({ k \in 1..Len(s) : s[k] = "left" })

\* shuffleArray([...originalStimuli]): a sort with a random comparator
\* leaves some permutation of the deck
Shuffles(d) ==
  { s \in [1..Len(d) -> { "left", "right" }] : Lefts(s) = Lefts(d) }

\* the page before DOMContentLoaded
NoPage ==
  [stimulus |-> -1, disabled |-> FALSE, restartHidden |-> TRUE,
   skipHidden |-> TRUE, gameOverHidden |-> TRUE]

\* endGame(): the stimulus is replaced, the answer buttons are disabled,
\* the message and the restart button are shown, the skip button hidden
EndGame(u) ==
  [u EXCEPT !.stimulus = -1, !.disabled = TRUE, !.gameOverHidden = FALSE,
            !.restartHidden = FALSE, !.skipHidden = TRUE]

\* a showNextStimulus that does nothing when the deck is exhausted
ShowNextStimulus_NoEnd(u, idx, deck) ==
  IF idx < Len(deck) THEN [u EXCEPT !.stimulus = idx] ELSE u

\* showNextStimulus(): stimuli[currentIndex] is put on screen, or the game
\* ends when there is none
ShowNextStimulus(u, idx, deck) ==
  IF idx < Len(deck) THEN [u EXCEPT !.stimulus = idx] ELSE EndGame(u)

\* initGame(): a fresh shuffle, index and score 0, no attempts, controls
\* back to play, first stimulus shown. Pending timers are left alone
InitGame(v) ==
  /\ stimuli' \in Shuffles(Deck(v))
  /\ currentIndex' = 0
  /\ score' = 0
  /\ responses' = << >>
  /\ ui' = ShowNextStimulus(
              [ui EXCEPT !.disabled = FALSE, !.restartHidden = TRUE,
                         !.skipHidden = (v = "word"),
                         !.gameOverHidden = TRUE],
              0, stimuli')
  /\ UNCHANGED timers

\* DOMContentLoaded: the listeners are wired and initGame() is called
PageLoad ==
  /\ version = "none"
  /\ \E v \in Versions : version' = v /\ InitGame(v)
  /\ UNCHANGED vars

\* the restart button is clicked; it can be only while it is shown
Restart ==
  /\ version # "none"
  /\ ~ui.restartHidden
  /\ InitGame(version)
  /\ UNCHANGED << version, vars >>

\* the ways a choice reaches handleResponse: a click on an answer button,
\* an arrow key, a swipe on the stimulus (word version)
Inputs == { "button", "key", "swipe" }

\* a click comes only from a button that is not disabled; the keydown
\* listener is on the document; the touch listeners are on the stimulus
\* element of the word version
CanInput(input) ==
  CASE input = "button" -> ~ui.disabled
    [] input = "key" -> TRUE
    [] input = "swipe" -> version = "word"

\* handleResponse(choice)
HandleResponse(choice) ==
  IF currentIndex >= Len(stimuli)
    THEN UNCHANGED << stimuli, currentIndex, score, responses, timers, ui >>
    ELSE /\ score' = IF choice = stimuli[currentIndex + 1] THEN score + 1
                                                            ELSE score
         /\ responses' = Append(responses, currentIndex)
         /\ timers' = timers + 1
         /\ UNCHANGED << stimuli, currentIndex, ui >>

\* the player gives a choice
Respond ==
  /\ version # "none"
  /\ timers < MaxTimers
  /\ \E input \in Inputs, choice \in { "left", "right" } :
       /\ CanInput(input)
       /\ HandleResponse(choice)
  /\ UNCHANGED << version, vars >>

\* a feedback timer fires: currentIndex++; showNextStimulus()
TimerFires ==
  /\ timers > 0
  /\ timers' = timers - 1
  /\ currentIndex' = currentIndex + 1
  /\ ui' = ShowNextStimulus(ui, currentIndex', stimuli)
  /\ UNCHANGED << version, stimuli, score, responses, vars >>

\* the skip button of the image version is clicked: endGame()
Skip ==
  /\ version = "image"
  /\ ~ui.skipHidden
  /\ ui' = EndGame(ui)
  /\ UNCHANGED << version, stimuli, currentIndex, score, responses, timers,
                  vars >>

GameNext ==
  \/ PageLoad
  \/ Restart
  \/ Respond
  \/ TimerFires
  \/ Skip

----------------------------------------------------------------------------
(* Initial state *)

IdleInstall ==
  [pc |-> "idle", i |-> 0, outcome |-> << >>, warned |-> {}, logged |-> {},
   promise |-> "none"]

IdleActivate ==
  [pc |-> "idle", keys |-> {}, pending |-> {}, failed |-> {},
   orphans |-> {}, promise |-> "none"]

IdleEvent ==
  [pc |-> "idle", req |-> CHOOSE r \in Requests : TRUE, responded |-> FALSE,
   netCalls |-> 0, net |-> "none", result |-> NoResult, putObj |-> "-", used |-> {},
   store |-> "none", page |-> "none"]

NoHist ==
  [valid |-> FALSE, outcome |-> << >>, entries |-> EmptyEntries,
   dirty |-> FALSE]

\* the fetch events of one behaviour
Events == 1..(MaxWork - 1)

Init ==
  /\ manifest \in Manifests
  /\ \E n \in 0..Len(StaleTags) :
       caches = [i \in 1..n |-> StaleBucket(StaleTags[i])]
  /\ sw = [state |-> "none", skipWaiting |-> FALSE, claimed |-> FALSE,
           active |-> FALSE, installs |-> 0]
  /\ inst = IdleInstall
  /\ act = IdleActivate
  /\ ev = [e \in Events |-> IdleEvent]
  /\ hist = NoHist
  /\ version = "none"
  /\ stimuli = << >>
  /\ currentIndex = 0
  /\ score = 0
  /\ responses = << >>
  /\ timers = 0
  /\ ui = NoPage

\* the install events and fetch events dispatched so far
Work == sw.installs + Cardinality({ n \in Events : ev[n].pc # "idle" })

----------------------------------------------------------------------------
(* Registration and the install handler *)

\* an install handler that does not ask to skip the waiting phase
SkipWaiting_Omitted(w) == w

\* self.skipWaiting(): the worker, once installed, is activated without
\* waiting for the pages of the active worker to close
SkipWaiting(w) == [w EXCEPT !.skipWaiting = TRUE]

\* the browser registers the worker script and fires "install" on the new
\* worker; the handler starts the async function (caches.open is called)
\* and calls skipWaiting()
InstallEvent ==
  /\ sw.state \in { "none", "activated", "redundant" }
  /\ Work < MaxWork
  /\ sw' = SkipWaiting([sw EXCEPT !.state = "installing",
                                  !.skipWaiting = FALSE,
                                  !.installs = @ + 1])
  /\ inst' = [IdleInstall EXCEPT !.pc = "open", !.promise = "pending"]
  /\ hist' = IF inst.promise = "resolved"
               THEN [valid |-> TRUE, outcome |-> inst.outcome,
                     entries |-> Bucket(caches, CACHE_NAME), dirty |-> FALSE]
               ELSE NoHist
  /\ UNCHANGED << manifest, caches, act, ev, gvars >>

\* an install handler that catches the failure of the open and returns
OpenFailed_Caught(in) == [in EXCEPT !.pc = "done", !.promise = "resolved"]

\* await caches.open(CACHE_NAME) rejects: nothing catches it, the async
\* function rejects before the loop is entered
OpenFailed(in) == [in EXCEPT !.pc = "done", !.promise = "rejected"]

\* await caches.open(CACHE_NAME) settles
InstallOpen ==
  /\ inst.pc = "open"
  /\ \E ok \in BOOLEAN :
       IF ok
         THEN /\ caches' = Open(caches, CACHE_NAME)
              /\ inst' = [inst EXCEPT !.pc = "add", !.i = 1]
              /\ sw' = sw
         ELSE /\ caches' = caches
              /\ inst' = OpenFailed(inst)
              /\ sw' = [sw EXCEPT !.state = "redundant"]
  /\ UNCHANGED << manifest, act, ev, hist, gvars >>

\* the loop calls cache.add(asset) for the next asset and awaits it
InstallAddStart ==
  /\ inst.pc = "add"
  /\ inst.i <= Len(manifest)
  /\ inst' = [inst EXCEPT !.pc = "adding"]
  /\ UNCHANGED << manifest, caches, sw, act, ev, hist, gvars >>

\* cache.add(asset): the fetch fails, or answers with a status that is not
\* ok, or answers ok and the response is stored
AddOutcomes == { "ok", "network_error", "bad_status" }

\* how the promise of cache.add settles
Settled(o) == IF o = "ok" THEN "ok" ELSE "failed"

Failures(outcome) ==
  Cardinality({ j \in 1..Len(outcome) : outcome[j] # "ok" })

\* a catch block that swallows the error
Warn_Silent(warned, asset) == warned

\* the catch block of the loop: console.warn names the asset
Warn(warned, asset) == warned \cup { asset }

\* a loop without the try/catch: the first failing cache.add rejects the
\* async function
AfterAdd_NoCatch(in, asset, o) ==
  IF o = "ok"
    THEN [in EXCEPT !.pc = "add", !.i = @ + 1,
                    !.outcome = Append(@, Settled(o)),
                    !.logged = @ \cup { asset }]
    ELSE [in EXCEPT !.pc = "done", !.outcome = Append(@, Settled(o)),
                    !.promise = "rejected"]

\* a loop that does not await cache.add: it goes on to the next asset with
\* the add unsettled
AfterAdd_Unawaited(in, asset, o) == [in EXCEPT !.pc = "add", !.i = @ + 1]

\* the body of the loop once cache.add(asset) has settled with outcome o:
\* console.log after the await, or the catch block; either way the loop
\* goes on to the next asset
AfterAdd(in, asset, o) ==
  [in EXCEPT !.pc = "add",
             !.i = @ + 1,
             !.outcome = Append(@, Settled(o)),
             !.logged = IF o = "ok" THEN @ \cup { asset } ELSE @,
             !.warned = IF o = "ok" THEN @ ELSE Warn(@, asset)]

\* cache.add(asset) settles: it stores the response of a fetch that answered
\* with an ok status, and throws otherwise
InstallAddSettle ==
  /\ inst.pc = "adding"
  /\ \E o \in AddOutcomes :
       /\ o # "ok" => Failures(inst.outcome) < MaxFailures
       /\ LET asset == manifest[inst.i]
          IN  /\ caches' = IF o = "ok"
                             THEN PutEntry(caches, CACHE_NAME, asset)
                             ELSE caches
              /\ inst' = AfterAdd(inst, asset, o)
  /\ UNCHANGED << manifest, sw, act, ev, hist, gvars >>

\* the loop is over: the async function returns, the promise given to
\* waitUntil resolves and the worker is installed
InstallDone ==
  /\ inst.pc = "add"
  /\ inst.i > Len(manifest)
  /\ inst' = [inst EXCEPT !.pc = "done", !.promise = "resolved"]
  /\ sw' = [sw EXCEPT !.state = "installed"]
  /\ UNCHANGED << manifest, caches, act, ev, hist, gvars >>

----------------------------------------------------------------------------
(* The activate handler *)

\* the installed worker is activated: at once when skipWaiting() was called,
\* else only when no older worker is active. The handler calls caches.keys()
\* and clients.claim()
ActivateEvent ==
  /\ sw.state = "installed"
  /\ sw.skipWaiting \/ ~sw.active
  /\ sw' = [sw EXCEPT !.state = "activating", !.claimed = TRUE,
                      !.active = FALSE]
  /\ act' = [IdleActivate EXCEPT !.pc = "keys", !.promise = "pending",
                                 !.orphans = act.orphans \cup act.pending]
  /\ UNCHANGED << manifest, caches, inst, ev, hist, gvars >>

\* a clean-up that deletes every bucket it finds
ToDelete_All(keys) == keys

\* a clean-up that knows the previous tag only
ToDelete_PreviousOnly(keys) == { k \in keys : k = StaleTags[1] }

\* keys.map((key) => (key === CACHE_NAME ? null : caches.delete(key)))
ToDelete(keys) == { k \in keys : k # CACHE_NAME }

\* an aggregate that waits for every deletion and ignores their failures
AllPromise_Settled(pending, failed) ==
  IF pending = {} THEN "resolved" ELSE "pending"

\* Promise.all over the deletions: rejected as soon as one is, resolved
\* when none is left pending and none failed
AllPromise(pending, failed) ==
  IF failed # {} THEN "rejected"
  ELSE IF pending = {} THEN "resolved"
  ELSE "pending"

\* caches.keys() resolves; every deletion is started
ActivateKeys ==
  /\ act.pc = "keys"
  /\ LET del == ToDelete(Tags(caches))
     IN  act' = [act EXCEPT !.pc = "deleting",
                            !.keys = Tags(caches),
                            !.pending = del,
                            !.promise = AllPromise(del, {})]
  /\ UNCHANGED << manifest, caches, sw, inst, ev, hist, gvars >>

\* one caches.delete(key) settles
ActivateDelete ==
  /\ act.pc = "deleting"
  /\ \E k \in act.pending, ok \in BOOLEAN :
       /\ caches' = IF ok THEN Delete(caches, k) ELSE caches
       /\ LET pending == act.pending \ { k }
              failed == IF ok THEN act.failed ELSE act.failed \cup { k }
          IN  act' = [act EXCEPT !.pending = pending,
                                 !.failed = failed,
                                 !.promise = AllPromise(pending, failed)]
  /\ UNCHANGED << manifest, sw, inst, ev, hist, gvars >>

\* a caches.delete(key) that an earlier activation started settles
ActivateOrphan ==
  /\ \E k \in act.orphans, ok \in BOOLEAN :
       /\ caches' = IF ok THEN Delete(caches, k) ELSE caches
       /\ act' = [act EXCEPT !.orphans = @ \ { k }]
  /\ UNCHANGED << manifest, sw, inst, ev, hist, gvars >>

\* the promise given to waitUntil has settled: the worker is activated,
\* whether it resolved or rejected
ActivateDone ==
  /\ sw.state = "activating"
  /\ act.promise \in { "resolved", "rejected" }
  /\ sw' = [sw EXCEPT !.state = "activated", !.active = TRUE]
  /\ UNCHANGED << manifest, caches, inst, act, ev, hist, gvars >>

----------------------------------------------------------------------------
(* The fetch handler *)

Finish(e, r, used) ==
  [e EXCEPT !.pc = "done", !.result = r, !.page = Deliver(r, used)]

\* cache.put(req, fresh): the response itself is stored
PutArg_NoClone(r) == r

\* what the sub-resource branch hands to cache.put
PutArg(r) == Clone(r)

\* a controlled page issues a request: the synchronous part of the handler
FetchEvent(n) ==
  /\ sw.active
  /\ Work < MaxWork
  /\ ev[n].pc = "idle"
  /\ \A m \in 1..(n - 1) : ev[m].pc # "idle"
  /\ \E req \in Requests :
       ev' = [ev EXCEPT ![n] =
                IF ~IsHttp(req)
                  THEN [@ EXCEPT !.req = req, !.pc = "done",
                                 !.page = "passthrough"]
                ELSE IF req.mode = "navigate"
                  THEN [@ EXCEPT !.req = req, !.responded = TRUE,
                                 !.pc = "nav_fetch", !.netCalls = @ + 1,
                                 !.net = "pending"]
                ELSE [@ EXCEPT !.req = req, !.responded = TRUE,
                               !.pc = "sub_match"]]
  /\ UNCHANGED << manifest, caches, sw, inst, act, hist, gvars >>

\* a navigation branch that also stores what it fetched
NavSuccess_Store(e) ==
  Finish([e EXCEPT !.net = "ok", !.putObj = "clone",
                   !.used = @ \cup { "clone" }, !.store = "pending"],
         Fresh, e.used \cup { "clone" })

\* navigation, try block: `return await fetch(req)` once the fetch succeeded
NavSuccess(e) == Finish([e EXCEPT !.net = "ok"], Fresh, e.used)

\* navigation: await fetch(req) settles
NavFetch(n) ==
  /\ ev[n].pc = "nav_fetch"
  /\ \E ok \in BOOLEAN :
       ev' = [ev EXCEPT ![n] =
                IF ok THEN NavSuccess(@)
                      ELSE [@ EXCEPT !.pc = "nav_match", !.net = "failed"]]
  /\ UNCHANGED << manifest, caches, sw, inst, act, hist, gvars >>

\* navigation, catch block: await caches.match(req) settles
NavMatch(n) ==
  /\ ev[n].pc = "nav_match"
  /\ LET m == MatchAll(caches, Key(ev[n].req))
     IN  ev' = [ev EXCEPT ![n] =
                  IF IsResponse(m) THEN Finish(@, m, @.used)
                                   ELSE [@ EXCEPT !.pc = "nav_fallback"]]
  /\ UNCHANGED << manifest, caches, sw, inst, act, hist, gvars >>

\* a fallback that looks nothing up
Fallback_None(cs) == Undefined

\* the second operand of the navigation fallback
Fallback(cs) == MatchAll(cs, OFFLINE_URL)

\* navigation, catch block: caches.match("/offline.html") settles
NavFallback(n) ==
  /\ ev[n].pc = "nav_fallback"
  /\ ev' = [ev EXCEPT ![n] = Finish(@, Fallback(caches), @.used)]
  /\ UNCHANGED << manifest, caches, sw, inst, act, hist, gvars >>

\* a branch that goes to the network whatever the look-up found
CacheHit_Never(cached) == FALSE

\* `if (cached)`
CacheHit(cached) == IsResponse(cached)

\* sub-resource: await caches.match(req) settles
SubMatch(n) ==
  /\ ev[n].pc = "sub_match"
  /\ LET cached == MatchAll(caches, Key(ev[n].req))
     IN  ev' = [ev EXCEPT ![n] =
                  IF CacheHit(cached)
                    THEN Finish(@, cached, @.used)
                    ELSE [@ EXCEPT !.pc = "sub_fetch", !.netCalls = @ + 1,
                                   !.net = "pending"]]
  /\ UNCHANGED << manifest, caches, sw, inst, act, hist, gvars >>

\* a try block without its catch: the error rejects the handler's promise
SubCatch_Rethrow(cached) == Thrown

\* sub-resource, catch block: `return cached`
SubCatch(cached) == cached

\* sub-resource: await fetch(req) settles; on failure the catch block
\* returns `cached`, which is undefined here
SubFetch(n) ==
  /\ ev[n].pc = "sub_fetch"
  /\ \E ok \in BOOLEAN :
       ev' = [ev EXCEPT ![n] =
                IF ok THEN IF IsHttp(@.req)
                             THEN [@ EXCEPT !.pc = "sub_open", !.net = "ok"]
                             ELSE Finish([@ EXCEPT !.net = "ok"], Fresh, @.used)
                      ELSE Finish([@ EXCEPT !.net = "failed"],
                                  SubCatch(Undefined), @.used)]
  /\ UNCHANGED << manifest, caches, sw, inst, act, hist, gvars >>

\* sub-resource: await caches.open(CACHE_NAME) settles; then
\* cache.put(req, fresh.clone()) is called, which takes the body of the
\* object it is given, and fresh is returned without awaiting the put.
\* A failed open is caught like a failed fetch
SubOpen(n) ==
  /\ ev[n].pc = "sub_open"
  /\ \E ok \in BOOLEAN :
       IF ok
         THEN /\ caches' = Open(caches, CACHE_NAME)
              /\ LET arg == PutArg(Fresh)
                     used == ev[n].used \cup { arg.obj }
                 IN  ev' = [ev EXCEPT ![n] =
                              Finish([@ EXCEPT !.putObj = arg.obj,
                                               !.used = used,
                                               !.store = "pending"],
                                     Fresh, used)]
         ELSE /\ caches' = caches
              /\ ev' = [ev EXCEPT ![n] =
                           Finish([@ EXCEPT !.store = "open_failed"],
                                  SubCatch(Undefined), @.used)]
  /\ UNCHANGED << manifest, sw, inst, act, hist, gvars >>

\* a store keyed by something else than the request
StoreKey_Other(req) == "/index.html"

\* the key of cache.put(req, ...)
StoreKey(req) == Key(req)

\* the detached cache.put settles
PutSettle(n) ==
  /\ ev[n].store = "pending"
  /\ \E ok \in BOOLEAN :
       /\ caches' = IF ok
                      THEN PutEntry(caches, CACHE_NAME, StoreKey(ev[n].req))
                      ELSE caches
       /\ ev' = [ev EXCEPT ![n].store = IF ok THEN "stored" ELSE "put_failed"]
       /\ hist' = IF ok /\ hist.valid THEN [hist EXCEPT !.dirty = TRUE]
                                      ELSE hist
  /\ UNCHANGED << manifest, sw, inst, act, gvars >>

----------------------------------------------------------------------------

Next ==
  \/ InstallEvent
  \/ InstallOpen
  \/ InstallAddStart
  \/ InstallAddSettle
  \/ InstallDone
  \/ ActivateEvent
  \/ ActivateKeys
  \/ ActivateDelete
  \/ ActivateOrphan
  \/ ActivateDone
  \/ \E n \in Events : FetchEvent(n)
  \/ \E n \in Events : NavFetch(n)
  \/ \E n \in Events : NavMatch(n)
  \/ \E n \in Events : NavFallback(n)
  \/ \E n \in Events : SubMatch(n)
  \/ \E n \in Events : SubFetch(n)
  \/ \E n \in Events : SubOpen(n)
  \/ \E n \in Events : PutSettle(n)

Spec == Init /\ [][Next]_vars

\* the game of a page, with the worker left as it was registered
GameInit ==
  /\ Init
  /\ manifest = Cut(PRECACHE_ASSETS)
  /\ caches = << >>

GameSpec == GameInit /\ [][GameNext]_gvars

\* the player keeps answering and the pending timers fire
GameFairSpec == GameSpec /\ WF_gvars(Respond) /\ WF_gvars(TimerFires)

\* the cache-storage operations of the sub-resource store settle
FairSpec ==
  Spec /\ \A n \in Events : WF_vars(SubOpen(n)) /\ WF_vars(PutSettle(n))

\* the browser activates an installed worker that may be activated, and
\* the cache-storage operations of the activate handler settle
LifecycleSpec ==
  Spec /\ WF_vars(ActivateEvent) /\ WF_vars(ActivateKeys)
       /\ WF_vars(ActivateDelete) /\ WF_vars(ActivateDone)

----------------------------------------------------------------------------
(* Properties *)

ManifestKeys == { manifest[j] : j \in 1..Len(manifest) }

\* the entries of the manifest whose cache.add succeeded in this install
AddedOk == { manifest[j] : j \in { k \in 1..Len(inst.outcome) :
                                      inst.outcome[k] = "ok" } }

AddedFailed == { manifest[j] : j \in { k \in 1..Len(inst.outcome) :
                                          inst.outcome[k] # "ok" } }

NoFetchStore == \A n \in Events : ev[n].store # "stored"

\* C1: install failure isolation. Whatever subset of the manifest fails to
\* be fetched and stored, the install promise does not reject on account of
\* it (a rejected install is one whose bucket could not be opened, before
\* any entry was tried), every entry was tried, and every entry whose
\* fetch-and-store succeeded is in the current bucket once install has
\* completed. With manifest ["/a.js","/b.js"], an empty bucket to start with
\* and "/a.js" failing, the bucket holds "/b.js" only.
C1_InstallFailureIsolation ==
  /\ inst.promise = "rejected" => inst.i = 0 /\ inst.outcome = << >>
  /\ inst.pc = "done" /\ inst.i > 0 =>
       /\ inst.promise = "resolved"
       /\ Len(inst.outcome) = Len(manifest)
       /\ AddedOk \subseteq CurrentKeys(caches)
  /\ ( /\ manifest = ScenarioManifest
       /\ inst.promise = "resolved"
       /\ sw.installs = 1
       /\ AddedFailed = { "/a.js" }
       /\ NoFetchStore )
     => CurrentKeys(caches) = { "/b.js" }

\* C1 witness: the scenario's install has completed with "/a.js" failed
C1_Witness ==
  /\ manifest = ScenarioManifest
  /\ inst.promise = "resolved"
  /\ sw.installs = 1
  /\ AddedFailed = { "/a.js" }
  /\ CurrentKeys(caches) = { "/b.js" }

\* C2: once the activate handler has completed (its promise resolved), the
\* bucket tags that exist are exactly {CACHE_NAME}, however many stale tags
\* there were before (none, one or several).
C2_OnlyCurrentTagAfterActivate ==
  act.promise = "resolved" => Tags(caches) = { CACHE_NAME }

\* C2 witness: activation found two stale tags and has completed
C2_Witness ==
  /\ act.promise = "resolved"
  /\ act.keys = { StaleTags[1], StaleTags[2], CACHE_NAME }
  /\ Tags(caches) = { CACHE_NAME }

\* C2 witness of the scenario: tags {"v1","v2"} become {"v2"}
C2_ScenarioReached ==
  /\ act.promise = "resolved"
  /\ act.keys = { StaleTags[1], CACHE_NAME }
  /\ Tags(caches) = { CACHE_NAME }

\* C8: never silent loss. Once install has completed, every entry of the
\* manifest is in the current bucket or was named in a warning logged by
\* this install.
C8_NeverSilentLoss ==
  inst.promise = "resolved" =>
    \A a \in ManifestKeys : a \in CurrentKeys(caches) \/ a \in inst.warned

\* C8 witness: install has completed with an entry missing from the bucket
C8_Witness ==
  /\ inst.promise = "resolved"
  /\ \E a \in ManifestKeys : a \notin CurrentKeys(caches) /\ a \in inst.warned

\* a fetch event for a sub-resource: an HTTP(S) request that is no navigation
SubResource(n) ==
  ev[n].pc # "idle" /\ IsHttp(ev[n].req) /\ ev[n].req.mode # "navigate"

Navigation(n) ==
  ev[n].pc # "idle" /\ IsHttp(ev[n].req) /\ ev[n].req.mode = "navigate"

InBucket(key) == key \in CurrentKeys(caches)

InAnyBucket(key) == IsResponse(MatchAll(caches, key))

\* C3: cache-first. A sub-resource request that is in the bucket when the
\* handler looks it up is answered with the cached response for that
\* request, and the event makes no network fetch, then or later.
C3_CacheFirst ==
  [][\A n \in Events :
       /\ (SubResource(n) /\ ev[n].pc = "sub_match" /\ InBucket(Key(ev[n].req))
             /\ ev'[n] # ev[n])
            => /\ ev'[n].pc = "done"
               /\ ev'[n].result.kind = "cached"
               /\ ev'[n].result.key = Key(ev[n].req)
               /\ ev'[n].page = "response"
               /\ ev'[n].netCalls = 0
       /\ (SubResource(n) /\ ev[n].pc = "done" /\ ev[n].result.kind = "cached")
            => ev[n].netCalls = 0 /\ ev'[n] = ev[n]]_vars

\* C3 witness: a sub-resource held by the bucket was served from the cache
C3_Witness ==
  \E n \in Events :
    /\ SubResource(n) /\ ev[n].pc = "done"
    /\ ev[n].result.kind = "cached"
    /\ InBucket(Key(ev[n].req))
    /\ ev[n].netCalls = 0

\* the store of event n was given up: the bucket could not be opened or the
\* put was rejected
StoreFailed(n) == ev[n].store \in { "open_failed", "put_failed" }

C5_ExplicitFailure ==
  [][\A n \in Events :
       (/\ Navigation(n) /\ ev[n].net = "failed"
        /\ ~InBucket(Key(ev[n].req)) /\ ~InBucket(OFFLINE_URL)
        /\ ev[n].pc # "done" /\ ev'[n].pc = "done")
         => ev'[n].page = "network_error"]_vars

\* The statement of C5 with every look-up read as the code makes it, over
\* all the buckets of the cache storage: this one holds.
ExplicitFailure_AnyBucket ==
  [][\A n \in Events :
       (/\ Navigation(n) /\ ev[n].net = "failed"
        /\ ~InAnyBucket(Key(ev[n].req)) /\ ~InAnyBucket(OFFLINE_URL)
        /\ ev[n].pc # "done" /\ ev'[n].pc = "done")
         => ev'[n].page = "network_error"]_vars

\* C6: a navigation whose network fetch failed is answered with its own
\* entry when the bucket has one at the look-up; when the bucket has none,
\* the fallback document is looked up next and is the answer when the bucket
\* has it.
C6_OwnEntryThenFallback ==
  [][\A n \in Events :
       /\ (Navigation(n) /\ ev[n].pc = "nav_match" /\ ev'[n] # ev[n])
            => IF InBucket(Key(ev[n].req))
                 THEN /\ ev'[n].pc = "done"
                      /\ ev'[n].result.kind = "cached"
                      /\ ev'[n].result.key = Key(ev[n].req)
                 ELSE ev'[n].pc = "nav_fallback"
       /\ (Navigation(n) /\ ev[n].pc = "nav_fallback" /\ ev'[n] # ev[n]
             /\ InBucket(OFFLINE_URL))
            => /\ ev'[n].pc = "done"
               /\ ev'[n].result.kind = "cached"
               /\ ev'[n].result.key = OFFLINE_URL]_vars

\* The statement of C6 with every look-up read over all the buckets of the
\* cache storage: this one holds.
OwnEntryThenFallback_AnyBucket ==
  [][\A n \in Events :
       /\ (Navigation(n) /\ ev[n].pc = "nav_match" /\ ev'[n] # ev[n])
            => IF InAnyBucket(Key(ev[n].req))
                 THEN /\ ev'[n].pc = "done"
                      /\ ev'[n].result.kind = "cached"
                      /\ ev'[n].result.key = Key(ev[n].req)
                 ELSE ev'[n].pc = "nav_fallback"
       /\ (Navigation(n) /\ ev[n].pc = "nav_fallback" /\ ev'[n] # ev[n]
             /\ InAnyBucket(OFFLINE_URL))
            => /\ ev'[n].pc = "done"
               /\ ev'[n].result.kind = "cached"
               /\ ev'[n].result.key = OFFLINE_URL]_vars

\* C7: network-first navigation. When the network fetch of a navigation
\* succeeds the handler returns that network response, cached entry or not,
\* no bucket changes in that step, and no store is ever started for a
\* navigation.
C7_NetworkFirstNavigation ==
  [][\A n \in Events :
       /\ (Navigation(n) /\ ev[n].pc = "nav_fetch" /\ ev'[n].net = "ok")
            => /\ ev'[n].pc = "done"
               /\ ev'[n].result = Fresh
               /\ ev'[n].page = "response"
               /\ caches' = caches
       /\ Navigation(n) => ev[n].store = "none" /\ ev'[n].store = "none"]_vars

\* C7 witness: a navigation was answered from the network although the
\* bucket holds an entry for it
C7_Witness ==
  \E n \in Events :
    /\ Navigation(n) /\ ev[n].pc = "done" /\ ev[n].net = "ok"
    /\ ev[n].result = Fresh
    /\ InBucket(Key(ev[n].req))

OkPattern(outcome) == { j \in 1..Len(outcome) : outcome[j] = "ok" }

\* C9: install idempotence. A run of the install handler that follows a
\* completed run, with the per-asset outcomes of that run and no store of a
\* fetch event landing meanwhile, resolves and leaves the bucket as it found
\* it, that is as one run left it: one entry for each stored key.
C9_InstallIdempotent ==
  ( /\ hist.valid
    /\ inst.promise = "resolved"
    /\ OkPattern(inst.outcome) = OkPattern(hist.outcome)
    /\ ~hist.dirty )
  => /\ Bucket(caches, CACHE_NAME) = hist.entries
     /\ \A k \in AllKeys : Bucket(caches, CACHE_NAME)[k] <= 1

\* C9 witness: a second install has completed with the outcomes of the first
C9_Witness ==
  /\ hist.valid
  /\ inst.promise = "resolved"
  /\ OkPattern(inst.outcome) = OkPattern(hist.outcome)
  /\ OkPattern(inst.outcome) # {}
  /\ ~hist.dirty
  /\ Bucket(caches, CACHE_NAME) = hist.entries

\* C10: whatever the fetch handler hands to cache.put is another object
\* than the response it returns, whose body is therefore still unread when
\* the page receives it.
C10_StoredCopyIsDistinct ==
  \A n \in Events :
    ev[n].putObj # "-" =>
      /\ ev[n].putObj # ev[n].result.obj
      /\ ev[n].result.obj \notin ev[n].used
      /\ ev[n].page = "response"

\* C10 witness: a fetched response was returned and its copy stored
C10_Witness ==
  \E n \in Events :
    /\ ev[n].store = "stored"
    /\ ev[n].putObj = "clone"
    /\ ev[n].result = Fresh
    /\ ev[n].page = "response"

\* C11: a sub-resource request with no cached entry whose network fetch
\* fails: the handler's promise resolves with the no-match result (it does
\* not reject), the page sees a failed load, no bucket changes in that step,
\* no store is started, and the event is over.
C11_MissAndNetworkFailure ==
  [][\A n \in Events :
       /\ (SubResource(n) /\ ev[n].pc = "sub_fetch" /\ ev'[n].net = "failed")
            => /\ ev'[n].pc = "done"
               /\ ev'[n].result = Undefined
               /\ ev'[n].page = "network_error"
               /\ ev'[n].store = "none"
               /\ caches' = caches
       /\ (SubResource(n) /\ ev[n].pc = "done" /\ ev[n].net = "failed")
            => ev'[n] = ev[n]]_vars

\* C11 witness: a sub-resource that missed the cache failed on the network
C11_Witness ==
  \E n \in Events :
    /\ SubResource(n) /\ ev[n].pc = "done"
    /\ ev[n].netCalls = 1 /\ ev[n].net = "failed"
    /\ ev[n].result = Undefined
    /\ ev[n].page = "network_error"

\* the scheme of the request is HTTP or HTTPS
HttpScheme(req) == req.scheme \in { HTTP, HTTPS }

\* C12: the fetch handler calls respondWith exactly for the requests whose
\* scheme is HTTP or HTTPS. For any other request it returns at once: the
\* event is over and left to the browser, with no look-up result, no network
\* fetch and no store.
C12_OnlyHttpIntercepted ==
  \A n \in Events :
    ev[n].pc # "idle" =>
      /\ ev[n].responded <=> HttpScheme(ev[n].req)
      /\ ~HttpScheme(ev[n].req) =>
           /\ ev[n].pc = "done"
           /\ ev[n].page = "passthrough"
           /\ ev[n].result = NoResult
           /\ ev[n].netCalls = 0
           /\ ev[n].store = "none"
           /\ ev[n].putObj = "-"

\* C12 witness: an extension request was passed through and an HTTP request
\* was intercepted
C12_Witness ==
  \E n, m \in Events :
    /\ ev[n].pc = "done" /\ ev[n].req.scheme = EXT /\ ~ev[n].responded
    /\ ev[n].page = "passthrough"
    /\ ev[m].pc # "idle" /\ ev[m].req.scheme = HTTP /\ ev[m].responded

\* C13: every install asks to skip the waiting phase, whatever the outcome
\* of the precache, so an installed worker never waits for the pages of an
\* active older worker to close: it goes on to be activated, with no other
\* step in between than the activate handler.
C13_ActivatesWithoutWaiting ==
  /\ [](sw.state \in { "installing", "installed" } => sw.skipWaiting)
  /\ [](sw.state = "installed" /\ sw.active => ENABLED ActivateEvent)
  /\ [](sw.state = "installed" => <>(sw.state = "activated"))

\* C13 witness: a second worker, installed with a failed asset while the
\* first was active, has been activated
C13_Witness ==
  /\ sw.installs = 2
  /\ sw.state = "activated"
  /\ inst.promise = "resolved"
  /\ AddedFailed # {}

\* C14: a sub-resource that missed the cache and whose network fetch
\* succeeded is answered with that network response, whatever becomes of
\* the store: once the event is over the handler has returned the fetched
\* response and the page has received it.
C14_StoreNeverAffectsResponse ==
  \A n \in Events :
    (SubResource(n) /\ ev[n].net = "ok" /\ ev[n].pc = "done")
      => ev[n].result = Fresh /\ ev[n].page = "response"

\* The part of C14 that the code keeps: once the bucket is open, the
\* response is returned with the put still pending, and a rejected put
\* leaves the response as it was.
PutNeverAffectsResponse ==
  \A n \in Events :
    (SubResource(n) /\ ev[n].store \in { "pending", "stored", "put_failed" })
      => ev[n].pc = "done" /\ ev[n].result = Fresh /\ ev[n].page = "response"

\* C15: the promise the activate handler gives to waitUntil is settled only
\* when every deletion the handler started has settled, also when one of
\* them fails.
C15_SettlesAfterAllDeletions ==
  act.promise \in { "resolved", "rejected" } => act.pending = {}

\* The part of C15 that the code keeps: the promise resolves only when
\* every deletion has settled.
ResolvesAfterAllDeletions ==
  act.promise = "resolved" => act.pending = {}

\* C16: when the deletion of a stale bucket fails, the promise of the
\* activate handler is rejected, from that step on; and no step of the
\* handler or of its deletions touches the current bucket.
C16_DeleteFailureRejects ==
  [][/\ act'.failed # {} => act'.promise = "rejected"
     /\ (act' # act /\ Has(caches, CACHE_NAME))
          => /\ Has(caches', CACHE_NAME)
             /\ Bucket(caches', CACHE_NAME) = Bucket(caches, CACHE_NAME)]_vars

\* C16 witness: a deletion failed, the activation was rejected and the
\* current bucket still holds what install stored
C16_Witness ==
  /\ act.failed # {}
  /\ act.promise = "rejected"
  /\ sw.state = "activated"
  /\ inst.promise = "resolved"
  /\ AddedOk # {}
  /\ AddedOk \subseteq CurrentKeys(caches)

\* C17: when the open of the current bucket fails, the install promise is
\* rejected in that step, with no manifest entry tried (nothing fetched,
\* logged or warned about) and no bucket changed; and the install promise
\* becomes rejected in no other step than a failed open, however many
\* cache.add calls fail.
C17_OpenFailureIsFatal ==
  [][/\ (inst.pc = "open" /\ inst'.pc = "done")
          => /\ inst'.promise = "rejected"
             /\ inst'.outcome = << >>
             /\ inst'.logged = {} /\ inst'.warned = {}
             /\ caches' = caches
     /\ (inst'.promise = "rejected" /\ inst.promise # "rejected")
          => inst.pc = "open"
     /\ (inst.promise = "rejected" /\ inst'.promise = "rejected")
          => inst' = inst
     /\ Failures(inst'.outcome) > 0 => inst'.promise # "rejected"]_vars

\* C17 witness: the open failed and the install was rejected with an empty
\* cache storage
C17_Witness ==
  /\ inst.promise = "rejected"
  /\ inst.pc = "done"
  /\ inst.outcome = << >>
  /\ sw.state = "redundant"
  /\ caches = << >>

\* a sub-resource event that went to the network and got a response
Fetched(n) == SubResource(n) /\ ev[n].net = "ok"

\* every store that was started has settled, and no fetched sub-resource
\* has its store still to start
StoresSettled ==
  \A n \in Events :
    /\ ev[n].store # "pending"
    /\ Fetched(n) => ev[n].pc = "done"

\* C18: whatever the interleaving of the fetch events, a sub-resource event
\* whose own network fetch succeeded returns a response to its page, and
\* once all the stores have settled the bucket holds one entry, and one
\* only, for every request that was fetched, however many events fetched it.
C18_ConcurrentFetchesIndependent ==
  /\ \A n \in Events :
       (Fetched(n) /\ ev[n].pc = "done") => ev[n].page = "response"
  /\ StoresSettled =>
       \A n \in Events :
         Fetched(n) => /\ InBucket(Key(ev[n].req))
                       /\ Bucket(caches, CACHE_NAME)[Key(ev[n].req)] = 1

\* The statement of C18 for the events whose storage steps did not fail:
\* this one holds under every interleaving.
ConcurrentFetches_StorageWorking ==
  /\ \A n \in Events :
       (Fetched(n) /\ ev[n].pc = "done" /\ ev[n].store # "open_failed")
         => ev[n].page = "response" /\ ev[n].result = Fresh
  /\ StoresSettled =>
       \A n \in Events :
         (Fetched(n) /\ ~StoreFailed(n))
           => /\ InBucket(Key(ev[n].req))
              /\ Bucket(caches, CACHE_NAME)[Key(ev[n].req)] = 1

\* two events for the same request both missed the cache, both fetched and
\* both stored: the second looked up before the store of the first landed
SameRequestRaced ==
  \E n, m \in Events :
    /\ n # m
    /\ Fetched(n) /\ Fetched(m)
    /\ Key(ev[n].req) = Key(ev[m].req)
    /\ ev[n].store = "stored" /\ ev[m].store = "stored"
    /\ Bucket(caches, CACHE_NAME)[Key(ev[n].req)] = 1

\* C19: every response the fetch handler serves from the cache, for a
\* sub-resource or for a navigation that failed on the network, is an entry
\* of the bucket tagged CACHE_NAME.
C19_ServedFromCurrentBucket ==
  \A n \in Events :
    ev[n].result.kind = "cached" => ev[n].result.tag = CACHE_NAME

\* What the code keeps of C19: a served entry comes from the first bucket,
\* in creation order, that holds the key; it is the current bucket's entry
\* whenever no stale bucket holds the key at the look-up.
ServedFromFirstHoldingBucket ==
  [][\A n \in Events :
       (ev'[n].result.kind = "cached" /\ ev[n].result.kind # "cached")
         => /\ ev'[n].result = MatchAll(caches, ev'[n].result.key)
            /\ ev'[n].result.key \in { Key(ev[n].req), OFFLINE_URL }
            /\ (\A i \in 1..Len(caches) :
                   caches[i].entries[ev'[n].result.key] > 0
                     => caches[i].tag = CACHE_NAME)
                 => ev'[n].result.tag = CACHE_NAME]_vars

\* C20: with the version tag unchanged, no step of any handler deletes the
\* current bucket or removes a key from it: the set of keys it holds only
\* grows.
C20_CurrentBucketOnlyGrows ==
  [][Has(caches, CACHE_NAME)
       => /\ Has(caches', CACHE_NAME)
          /\ CurrentKeys(caches) \subseteq CurrentKeys(caches')]_vars

\* C20 witness: after a second install and activation, with a store of a
\* fetch event landed, the bucket holds what install and the store put
\* there
C20_Witness ==
  /\ sw.installs = 2
  /\ sw.state = "activated"
  /\ hist.valid
  /\ KeysOf(hist.entries) # {}
  /\ \E n \in Events :
       /\ ev[n].store = "stored"
       /\ Key(ev[n].req) \notin ManifestKeys
       /\ KeysOf(hist.entries) \cup { Key(ev[n].req) }
             \subseteq CurrentKeys(caches)

\* C21: in the worker whose manifest lists "/offline.html", while the
\* bucket holds "/offline.html" (it keeps it once install stored it), a
\* navigation whose network fetch failed ends with a response for the page:
\* a cached entry for the request or the fallback document.
C21_OfflineNavigationAnswered ==
  [][/\ InBucket(OFFLINE_URL) => InBucket(OFFLINE_URL)'
     /\ \A n \in Events :
          ( /\ OFFLINE_URL \in ManifestKeys
            /\ InBucket(OFFLINE_URL)
            /\ Navigation(n) /\ ev[n].net = "failed"
            /\ ev[n].pc # "done" /\ ev'[n].pc = "done" )
          => /\ ev'[n].page = "response"
             /\ ev'[n].result.kind = "cached"
             /\ ev'[n].result.key \in { Key(ev[n].req), OFFLINE_URL }]_vars

\* C21 witness: an offline navigation with no entry of its own was answered
\* with the fallback document that install stored
C21_Witness ==
  \E n \in Events :
    /\ OFFLINE_URL \in ManifestKeys
    /\ OFFLINE_URL \in AddedOk
    /\ Navigation(n) /\ ev[n].pc = "done" /\ ev[n].net = "failed"
    /\ ev[n].result = Cached(CACHE_NAME, OFFLINE_URL)
    /\ ev[n].page = "response"

\* the cache.add calls of this install that were started and have not
\* settled
InFlight ==
  (IF inst.pc = "adding" THEN inst.i ELSE IF inst.i = 0 THEN 0 ELSE inst.i - 1)
    - Len(inst.outcome)

\* C22: the precache is sequential, in manifest order. At most one
\* cache.add is in flight; the add of entry i is started only when all the
\* entries before it have settled, and it is the add of the next entry.
C22_SequentialPrecache ==
  /\ InFlight \in { 0, 1 }
  /\ inst.pc = "adding" => inst.i = Len(inst.outcome) + 1
  /\ inst.pc = "add" => inst.i = Len(inst.outcome) + 1
  /\ Len(inst.outcome) <= Len(manifest)

\* C22 witness: the add of the second entry is in flight, the first having
\* failed
C22_Witness ==
  /\ inst.pc = "adding"
  /\ inst.i = 2
  /\ inst.outcome = << "failed" >>
  /\ InFlight = 1

\* endGame has run and initGame has not run since
GameOver == version # "none" /\ ~ui.gameOverHidden

Playing == version # "none" /\ ui.gameOverHidden

\* a step in which initGame runs on a click of the restart button
RestartStep == ~ui.restartHidden /\ ui'.restartHidden

\* the attempts recorded in this game for stimulus i
AttemptsFor(i) == { k \in 1..Len(responses) : responses[k] = i }

\* C23: in every state of a game the score is between 0 and the number of
\* stimuli of the deck, the attempts recorded are no more than the stimuli,
\* and no stimulus has more than one attempt recorded, whatever inputs
\* arrive while a feedback timer is pending.
C23_ScoreBound ==
  version # "none" =>
    /\ 0 <= score /\ score <= Len(stimuli)
    /\ Len(responses) <= Len(stimuli)
    /\ \A i \in 0..(Len(stimuli) - 1) : Cardinality(AttemptsFor(i)) <= 1

\* What the code keeps of C23: the score is never negative and never more
\* than the attempts recorded.
ScoreWithinAttempts ==
  0 <= score /\ score <= Len(responses)

\* more attempts and a higher score than the deck has stimuli
ScoreAboveDeck ==
  /\ version # "none"
  /\ score > Len(stimuli)
  /\ Len(responses) > Len(stimuli)

\* C24: from the step after endGame has run, and until initGame runs, no
\* step changes the score, records an attempt or puts a stimulus on screen.
C24_NothingAfterGameOver ==
  [][(GameOver /\ ~RestartStep)
       => /\ score' = score
          /\ responses' = responses
          /\ ui'.stimulus = -1]_gvars

\* What the code keeps of C24: it holds of a game that ended with the deck
\* exhausted, where the guard of handleResponse stops every input.
NothingAfterExhaustion ==
  [][(GameOver /\ currentIndex >= Len(stimuli) /\ ~RestartStep)
       => /\ score' = score
          /\ responses' = responses
          /\ ui'.stimulus = -1
          /\ currentIndex' >= Len(stimuli)]_gvars

\* C25: a restart begins the new game at index 0 with score 0 and the first
\* stimulus of the deck on screen; and the stimulus on screen is taken off
\* by a timer only after it was answered in this game, to be followed by
\* the next stimulus of the deck, or by game over when it was the last.
C25_RestartPlaysWholeDeck ==
  [][/\ RestartStep
          => /\ currentIndex' = 0 /\ score' = 0 /\ responses' = << >>
             /\ ui'.stimulus = 0
     /\ (Playing /\ timers' < timers)
          => /\ AttemptsFor(ui.stimulus) # {}
             /\ ui'.stimulus =
                  IF ui.stimulus + 1 < Len(stimuli) THEN ui.stimulus + 1
                                                    ELSE -1]_gvars

\* What the code keeps of C25: a restart resets index, score and attempts
\* and shows the first stimulus, and each timer moves on by one stimulus.
RestartResets ==
  [][/\ RestartStep
          => /\ currentIndex' = 0 /\ score' = 0 /\ responses' = << >>
             /\ ui'.stimulus = 0
     /\ (Playing /\ timers' < timers)
          => ui'.stimulus =
               IF ui.stimulus + 1 < Len(stimuli) THEN ui.stimulus + 1
                                                 ELSE -1]_gvars

\* a timer of the previous game fires in the new game before any answer
StaleTimerSkipsFirst ==
  /\ Playing
  /\ responses = << >>
  /\ currentIndex = 1
  /\ ui.stimulus = 1

\* C26: with the player answering and the timers firing, a game that is
\* being played eventually is over. The timer that ends it leaves
\* currentIndex at the length of the deck or beyond, the answer buttons
\* disabled and the restart button shown; from then on, until initGame
\* runs, currentIndex stays there and handleResponse changes nothing.
C26_GameTerminates ==
  /\ [](Playing => <>GameOver)
  /\ [][(Playing /\ GameOver' /\ timers' < timers)
           => /\ currentIndex' >= Len(stimuli)
              /\ ui'.disabled /\ ~ui'.restartHidden]_gvars
  /\ [][(GameOver /\ currentIndex >= Len(stimuli) /\ ~RestartStep)
           => /\ currentIndex' >= Len(stimuli)
              /\ score' = score /\ responses' = responses
              /\ timers' <= timers]_gvars

\* C26 witness: a game was played to the end of the deck, one answer for
\* each stimulus
C26_Witness ==
  /\ GameOver
  /\ currentIndex = Len(stimuli)
  /\ Len(responses) = Len(stimuli)
  /\ \A i \in 0..(Len(stimuli) - 1) : Cardinality(AttemptsFor(i)) = 1
  /\ timers = 0
  /\ ui.disabled /\ ~ui.restartHidden

====
